---------------------------- MODULE Spec2Model ----------------------------
(***************************************************************************)
(* Model of actions/generate-changelog/generate_changelog.py.              *)
(*                                                                         *)
(* Text is modelled as a sequence of tokens.  A token is a string standing *)
(* for one character ("[", "]", ":", " ", "\n", ...) or for one word made  *)
(* of word characters only ("Unreleased", "feat", "v1", ...).  A Python    *)
(* str is a sequence of tokens, a list of str a sequence of such           *)
(* sequences.  Regular expressions are evaluated on the tokens.  Release   *)
(* tags are modelled character by character.                               *)
(***************************************************************************)
EXTENDS Integers, Sequences, FiniteSets, TLC

VARIABLES
    call,       \* arguments of the function under test (a record), or NoCall
    ret,        \* Returned(its result), or Pending while it has not been applied
    pc,         \* position of main(): "start", "tag", "log", "merge", "done",
                \* "exit" (left by sys.exit or an exception); "idle" outside a run
    cfg,        \* Config of the current run
    last_tag,   \* result of find_last_tag of the current run (None or a tag)
    entries,    \* result of collect_entries of the current run
    doc,        \* CHANGELOG.md on disk: [exists, text]
    io,         \* what the current run did: reads and writes of the document,
                \* git and gh calls, exit status and what caused it
    hist        \* the document before the run and its INPUT_VERSION; the
                \* versions merged so far

vars == <<call, ret, pc, cfg, last_tag, entries, doc, io, hist>>

(***************************************************************************)
(* Bounds of the model.                                                    *)
(***************************************************************************)
MaxLines == 3      \* lines of a document given to the two line scans
MaxWords == 2      \* words of a generated commit description
MaxTags == 3       \* labels git tag lists
MaxCommits == 2    \* lines git log prints
MaxMerges == 3     \* merges into one document

\* Optional[str]: None, or Some(s); "if x:" is Truthy(x)
None == <<>>
Some(x) == <<x>>
Truthy(o) == o # None /\ o[1] # <<>>

NoCall == [fn |-> "none"]
Pending == [done |-> FALSE, val |-> <<>>]
Returned(v) == [done |-> TRUE, val |-> v]
NL == "\n"

(***************************************************************************)
(* Generic helpers on sequences.                                           *)
(***************************************************************************)
RECURSIVE Flatten(_)
Flatten(ss) == IF ss = <<>> THEN <<>> ELSE Head(ss) \o Flatten(Tail(ss))

RECURSIVE SeqsUpTo(_, _)
SeqsUpTo(S, n) ==
    IF n = 0 THEN {<<>>}
    ELSE LET shorter == SeqsUpTo(S, n - 1)
         IN  shorter \cup {Append(s, x) : s \in shorter, x \in S}

Min(S) == CHOOSE x \in S : \A y \in S : x <= y

(***************************************************************************)
(* str methods.                                                            *)
(***************************************************************************)
\* str.lower() / re.IGNORECASE on one token
Lower(t) ==
    CASE t \in {"Unreleased", "UNRELEASED"} -> "unreleased"
      [] t \in {"BREAKING", "Breaking"} -> "breaking"
      [] t \in {"FEAT", "Feat"} -> "feat"
      [] t = "Fix" -> "fix"
      [] t = "Chore" -> "chore"
      [] OTHER -> t

\* \s of the re module, on the tokens of the model
IsSpace(t) == t \in {" ", "\t", NL}

\* str.rstrip("\n")
RECURSIVE RStripNL(_)
RStripNL(s) ==
    IF s # <<>> /\ s[Len(s)] = NL THEN RStripNL(SubSeq(s, 1, Len(s) - 1)) ELSE s

\* str.splitlines(keepends=True), line boundary "\n"
RECURSIVE SplitLinesFrom(_, _)
SplitLinesFrom(text, i) ==
    IF i > Len(text) THEN <<>>
    ELSE LET e == Min({k \in i..Len(text) : text[k] = NL} \cup {Len(text)})
         IN  <<SubSeq(text, i, e)>> \o SplitLinesFrom(text, e + 1)

SplitLinesKeepEnds(text) == SplitLinesFrom(text, 1)

(***************************************************************************)
(* The heading and link patterns.                                          *)
(***************************************************************************)
\* index of the first token after the run of \s+ that starts at i, or 0
RECURSIVE SkipSpaces(_, _)
SkipSpaces(s, i) ==
    IF i <= Len(s) /\ IsSpace(s[i]) THEN SkipSpaces(s, i + 1) ELSE i

\* ^##\s+ : the index after "##" and at least one space, or 0 when no match
AfterHashes(s) ==
    IF Len(s) >= 2 /\ s[1] = "##" /\ IsSpace(s[2]) THEN SkipSpaces(s, 2) ELSE 0

\* _UNRELEASED_HEADING_REGEX.match: ^##\s+\[Unreleased\], re.IGNORECASE
UNRELEASED_HEADING_REGEX(s) ==
    LET i == AfterHashes(s)
    IN  /\ i # 0
        /\ Len(s) >= i + 2
        /\ s[i] = "["
        /\ Lower(s[i + 1]) = "unreleased"
        /\ s[i + 2] = "]"

\* _VERSION_HEADING_REGEX.match: ^##\s+\[.+\]  ("." matches no line break)
VERSION_HEADING_REGEX(s) ==
    LET i == AfterHashes(s)
    IN  /\ i # 0
        /\ Len(s) >= i + 2
        /\ s[i] = "["
        /\ \E j \in (i + 2)..Len(s) :
              /\ s[j] = "]"
              /\ \A k \in (i + 1)..(j - 1) : s[k] # NL

\* _UNRELEASED_LINK_REGEX.match: ^\[unreleased\]:, re.IGNORECASE
UNRELEASED_LINK_REGEX(s) ==
    /\ Len(s) >= 4
    /\ s[1] = "["
    /\ Lower(s[2]) = "unreleased"
    /\ s[3] = "]"
    /\ s[4] = ":"

(***************************************************************************)
(* _insert_version_section                                                 *)
(***************************************************************************)
\* InsertStep putting the section after the heading it found, not before it
InsertStep_after(st, line, new_section) ==
    LET stripped == RStripNL(line)
    IN  IF ~st.in_unreleased /\ UNRELEASED_HEADING_REGEX(stripped)
        THEN [st EXCEPT !.in_unreleased = TRUE, !.output = Append(@, line)]
        ELSE IF st.in_unreleased /\ ~st.inserted /\ VERSION_HEADING_REGEX(stripped)
        THEN [st EXCEPT !.output = @ \o <<line, <<NL>>, Append(new_section, NL),
                                           <<NL>>>>,
                        !.inserted = TRUE]
        ELSE [st EXCEPT !.output = Append(@, line)]

\* InsertStep without "inserted = True": the section goes before every heading
InsertStep_every(st, line, new_section) ==
    LET stripped == RStripNL(line)
    IN  IF ~st.in_unreleased /\ UNRELEASED_HEADING_REGEX(stripped)
        THEN [st EXCEPT !.in_unreleased = TRUE, !.output = Append(@, line)]
        ELSE IF st.in_unreleased /\ VERSION_HEADING_REGEX(stripped)
        THEN [st EXCEPT !.output = @ \o <<<<NL>>, Append(new_section, NL),
                                           <<NL>>, line>>]
        ELSE [st EXCEPT !.output = Append(@, line)]

\* one iteration of the for loop: st = [output, in_unreleased, inserted]
InsertStep(st, line, new_section) ==
    LET stripped == RStripNL(line)
    IN  IF ~st.in_unreleased /\ UNRELEASED_HEADING_REGEX(stripped)
        THEN [st EXCEPT !.in_unreleased = TRUE, !.output = Append(@, line)]
        ELSE IF st.in_unreleased /\ ~st.inserted
        THEN IF VERSION_HEADING_REGEX(stripped)
             THEN [st EXCEPT !.output = @ \o <<<<NL>>, Append(new_section, NL),
                                                <<NL>>, line>>,
                             !.inserted = TRUE]
             ELSE [st EXCEPT !.output = Append(@, line)]
        ELSE [st EXCEPT !.output = Append(@, line)]

\* (a value bound by CHOOSE or by a set constructor is evaluated once, where
\* an operator's argument is evaluated again at each of its uses)
RECURSIVE InsertLoop(_, _, _, _)
InsertLoop(st, lines, i, new_section) ==
    IF i > Len(lines) THEN st
    ELSE CHOOSE r \in {InsertLoop(nxt, lines, i + 1, new_section) :
                          nxt \in {InsertStep(st, lines[i], new_section)}} : TRUE

\* the statement after the loop
InsertTail(st, new_section) ==
    IF st.in_unreleased /\ ~st.inserted
    THEN st.output \o <<<<NL>>, Append(new_section, NL)>>
    ELSE st.output

_insert_version_section(lines, new_section) ==
    CHOOSE output \in
        {InsertTail(st, ns) :
            st \in {InsertLoop([output |-> <<>>, in_unreleased |-> FALSE,
                                inserted |-> FALSE], ls, 1, ns) :
                       ls \in {lines}, ns \in {new_section}},
            ns \in {new_section}} : TRUE

(***************************************************************************)
(* _update_comparison_links                                                *)
(***************************************************************************)
\* f"[unreleased]: {cfg.repo_url}/compare/{cfg.version}...HEAD\n"
UnreleasedLink(c) ==
    <<"[", "unreleased", "]", ":", " ">> \o c.repo_url \o <<"/compare/">>
        \o c.version \o <<"...", "HEAD", NL>>

\* f"[{cfg.version}]: {cfg.repo_url}/compare/{last_tag}...{cfg.version}\n"
CompareLink(c, tag) ==
    <<"[">> \o c.version \o <<"]", ":", " ">> \o c.repo_url \o <<"/compare/">>
        \o tag \o <<"...">> \o c.version \o <<NL>>

\* f"[{cfg.version}]: {cfg.repo_url}/releases/tag/{cfg.version}\n"
ReleaseLink(c) ==
    <<"[">> \o c.version \o <<"]", ":", " ">> \o c.repo_url
        \o <<"/releases/tag/">> \o c.version \o <<NL>>

\* LinkStep without the "not updated" test: every [unreleased]: line is rewritten
LinkStep_all(st, line, c, tag) ==
    IF UNRELEASED_LINK_REGEX(line)
    THEN [output |-> st.output \o
                     <<<<"[", "unreleased", "]", ":", " ">> \o c.repo_url
                           \o <<"/compare/">> \o c.version \o <<"...", "HEAD", NL>>,
                       IF Truthy(tag)
                       THEN <<"[">> \o c.version \o <<"]", ":", " ">> \o c.repo_url
                                \o <<"/compare/">> \o tag[1] \o <<"...">>
                                \o c.version \o <<NL>>
                       ELSE <<"[">> \o c.version \o <<"]", ":", " ">> \o c.repo_url
                                \o <<"/releases/tag/">> \o c.version \o <<NL>>>>,
          updated |-> TRUE]
    ELSE [st EXCEPT !.output = Append(@, line)]

\* one iteration of the for loop: st = [output, updated]
LinkStep(st, line, c, tag) ==
    IF ~st.updated /\ UNRELEASED_LINK_REGEX(line)
    THEN [output |-> st.output \o
                     <<UnreleasedLink(c),
                       IF Truthy(tag) THEN CompareLink(c, tag[1])
                                      ELSE ReleaseLink(c)>>,
          updated |-> TRUE]
    ELSE [st EXCEPT !.output = Append(@, line)]

RECURSIVE LinkLoop(_, _, _, _, _)
LinkLoop(st, lines, i, c, tag) ==
    IF i > Len(lines) THEN st
    ELSE CHOOSE r \in {LinkLoop(nxt, lines, i + 1, c, tag) :
                          nxt \in {LinkStep(st, lines[i], c, tag)}} : TRUE

_update_comparison_links(lines, c, tag) ==
    CHOOSE output \in
        {LinkLoop([output |-> <<>>, updated |-> FALSE], ls, 1, c, tag).output :
            ls \in {lines}} : TRUE

(***************************************************************************)
(* Token classes used by the commit patterns.                              *)
(***************************************************************************)
\* tokens that are not made of word characters (\w)
NonWordToks ==
    {" ", "\t", NL, "(", ")", "!", ":", "[", "]", "-", "#", "/", ".", "...",
     "##", "###", "/compare/", "/releases/tag/", "/pull/"}

IsWordTok(t) == t \notin NonWordToks

\* \d+
IsDigits(t) == t \in {"7", "42", "43", "44"}

\* word tokens holding a character outside [a-zA-Z]
MixedToks == {"v0", "v1", "v2", "d0", "d1", "non_breaking", "x2"}

\* [a-zA-Z]+
IsAlpha(t) == IsWordTok(t) /\ ~IsDigits(t) /\ t \notin MixedToks

\* str[0].upper() + str[1:] on one token
UpperFirst(t) ==
    CASE t = "add" -> "Add"
      [] t = "drop" -> "Drop"
      [] t = "bump" -> "Bump"
      [] t = "breaking" -> "Breaking"
      [] t = "feat" -> "Feat"
      [] t = "fix" -> "Fix"
      [] t = "chore" -> "Chore"
      [] t = "merge" -> "Merge"
      [] OTHER -> t

(***************************************************************************)
(* Constants of the classifier.                                            *)
(***************************************************************************)
CATEGORY_ORDER ==
    <<"Breaking Changes", "Removed", "Deprecated", "Added", "Changed", "Fixed",
      "Security">>

\* _TYPE_TO_CATEGORY.get(cc_type, "Changed")
TYPE_TO_CATEGORY(cc_type) ==
    CASE cc_type = "feat" -> "Added"
      [] cc_type = "fix" -> "Fixed"
      [] cc_type = "security" -> "Security"
      [] cc_type = "deprecate" -> "Deprecated"
      [] cc_type = "revert" -> "Removed"
      [] OTHER -> "Changed"

_map_category(cc_type, breaking) ==
    IF breaking THEN "Breaking Changes" ELSE TYPE_TO_CATEGORY(cc_type)

_capitalise_first(text) ==
    IF text # <<>> THEN <<UpperFirst(text[1])>> \o Tail(text) ELSE text

(***************************************************************************)
(* _CC_REGEX: a type of letters, an optional "(scope)" without ")" inside, *)
(* an optional "!", a ":", optional white space, and the description up to *)
(* the end of the title.                                                   *)
(***************************************************************************)
\* index after an optional "(scope)" that starts at p
AfterScope(s, p) ==
    IF p <= Len(s) /\ s[p] = "(" /\ \E q \in (p + 1)..Len(s) : s[q] = ")"
    THEN Min({q \in (p + 1)..Len(s) : s[q] = ")"}) + 1
    ELSE p

\* the match object, as [matched, type, bang, desc]
CC_REGEX(s) ==
    LET noMatch == [matched |-> FALSE, type |-> "", bang |-> FALSE, desc |-> <<>>]
    IN  IF s = <<>> \/ ~IsAlpha(s[1]) THEN noMatch
        ELSE LET p == AfterScope(s, 2)
                 bang == p <= Len(s) /\ s[p] = "!"
                 c == IF bang THEN p + 1 ELSE p
             IN  IF c <= Len(s) /\ s[c] = ":"
                 THEN LET d == SkipSpaces(s, c + 1)
                          rest == SubSeq(s, d, Len(s))
                      IN  IF \E k \in 1..Len(rest) : rest[k] = NL THEN noMatch
                          ELSE [matched |-> TRUE, type |-> s[1], bang |-> bang,
                                desc |-> rest]
                 ELSE noMatch

\* _BREAKING_REGEX.search: \bBREAKING\b, re.IGNORECASE
BREAKING_REGEX(s) ==
    \E i \in 1..Len(s) :
        /\ Lower(s[i]) = "breaking"
        /\ (i > 1 => ~IsWordTok(s[i - 1]))
        /\ (i < Len(s) => ~IsWordTok(s[i + 1]))

\* _parse_commit searching BREAKING in the whole title, not in the description
_parse_commit_title(title) ==
    LET m == CC_REGEX(title)
    IN  [cc_type |-> IF m.matched THEN Lower(m.type) ELSE "",
         breaking |-> (m.matched /\ m.bang) \/ BREAKING_REGEX(title),
         description |-> IF m.matched THEN m.desc ELSE title]

\* (cc_type, breaking, description)
_parse_commit(title) ==
    LET m == CC_REGEX(title)
        cc_type == IF m.matched THEN Lower(m.type) ELSE ""
        bang == m.matched /\ m.bang
        description == IF m.matched THEN m.desc ELSE title
    IN  [cc_type |-> cc_type,
         breaking |-> bang \/ BREAKING_REGEX(description),
         description |-> description]

(***************************************************************************)
(* The patterns on the whole commit message.                               *)
(***************************************************************************)
\* _PR_NUMBER_REGEX.search: \(#(\d+)\)$ ; the number, or None
PR_NUMBER_REGEX(s) ==
    LET n == Len(s)
    IN  IF /\ n >= 4
           /\ s[n - 3] = "(" /\ s[n - 2] = "#" /\ IsDigits(s[n - 1]) /\ s[n] = ")"
        THEN Some(<<s[n - 1]>>)
        ELSE None

\* the longest run of \s tokens that ends at index n: its first index
RECURSIVE SpacesBefore(_, _)
SpacesBefore(s, n) ==
    IF n >= 1 /\ IsSpace(s[n]) THEN SpacesBefore(s, n - 1) ELSE n + 1

\* _TRAILING_PR_REGEX.sub("", s): \s*\(#\d+\)$
TRAILING_PR_REGEX_sub(s) ==
    IF PR_NUMBER_REGEX(s) = None THEN s
    ELSE SubSeq(s, 1, SpacesBefore(s, Len(s) - 4) - 1)

\* s starts with the words ws, one space between them
StartsWithWords(s, ws) ==
    /\ Len(s) >= 2 * Len(ws) - 1
    /\ \A k \in 1..Len(ws) : s[2 * k - 1] = ws[k]
    /\ \A k \in 1..(Len(ws) - 1) : s[2 * k] = " "

\* tokens in which [Mm]erge occurs, that end with "to", that start with main...
HasMerge(t) == t \in {"Merge", "merge", "Merged", "merged"}
EndsWithTo(t) == t \in {"to", "into"}
IsTrunk(t) == t \in {"main", "master", "workstation"}

\* _SKIP_PATTERNS.search
SKIP_PATTERNS(s) ==
    \/ StartsWithWords(s, <<"Merge", "pull", "request">>)
    \/ StartsWithWords(s, <<"Merge", "branch">>)
    \/ StartsWithWords(s, <<"Merge", "remote">>)
    \/ StartsWithWords(s, <<"Prepare", "release">>)
    \/ (Len(s) >= 3 /\ s[1] = "Create" /\ s[2] = " " /\ IsDigits(s[3]))
    \* [Mm]erge.*to (main|master|workstation)
    \/ \E i \in 1..Len(s) : \E j \in (i + 1)..(Len(s) - 2) :
          /\ HasMerge(s[i])
          /\ EndsWithTo(s[j]) /\ s[j + 1] = " " /\ IsTrunk(s[j + 2])
          /\ \A k \in i..j : s[k] # NL
    \* [Mm]erge (main|master) to
    \/ \E i \in 1..(Len(s) - 4) :
          /\ HasMerge(s[i]) /\ s[i] \in {"Merge", "merge"}
          /\ s[i + 1] = " " /\ s[i + 2] \in {"main", "master"}
          /\ s[i + 3] = " " /\ s[i + 4] \in {"to", "tomorrow"}

(***************************************************************************)
(* _fetch_pr_title and _entry_from_commit.  gh is what _run_cmd returns    *)
(* for the lookup: the stripped stdout, "" after a non-zero exit.          *)
(***************************************************************************)
\* title or None
_fetch_pr_title(gh) == IF gh # <<>> THEN Some(gh) ELSE None

\* f"- {description} ([#{pr_number}]({cfg.repo_url}/pull/{pr_number}))"
EntryTextPR(description, n, c) ==
    <<"-", " ">> \o description \o <<" ", "(", "[", "#">> \o n \o <<"]", "(">>
        \o c.repo_url \o <<"/pull/">> \o n \o <<")", ")">>

\* f"- {description}"
EntryText(description) == <<"-", " ">> \o description

\* _entry_from_commit excluding by type without the "not breaking" test
_entry_from_commit_excl(message, c, gh) ==
    IF SKIP_PATTERNS(message)
    THEN [entry |-> None, lookups |-> 0, parsed |-> FALSE]
    ELSE LET pr_number == PR_NUMBER_REGEX(message)
             pr_title == IF pr_number # None THEN _fetch_pr_title(gh) ELSE None
             title == IF pr_title # None THEN pr_title[1] ELSE message
             p == _parse_commit(title)
             lookups == IF pr_number # None THEN 1 ELSE 0
         IN  IF p.cc_type # "" /\ p.cc_type \in c.exclude_types
             THEN [entry |-> None, lookups |-> lookups, parsed |-> TRUE]
             ELSE [entry |-> Some([category |-> _map_category(p.cc_type, p.breaking),
                                   text |-> EntryText(p.description)]),
                   lookups |-> lookups, parsed |-> TRUE]

\* [entry: Optional[Entry], lookups: calls of _fetch_pr_title,
\*  parsed: whether _parse_commit was called]
_entry_from_commit(message, c, gh) ==
    IF SKIP_PATTERNS(message)
    THEN [entry |-> None, lookups |-> 0, parsed |-> FALSE]
    ELSE LET pr_number == PR_NUMBER_REGEX(message)
             pr_title == IF pr_number # None THEN _fetch_pr_title(gh) ELSE None
             title == IF pr_title # None THEN pr_title[1] ELSE message
             p == _parse_commit(title)
             lookups == IF pr_number # None THEN 1 ELSE 0
         IN  IF ~p.breaking /\ p.cc_type # "" /\ p.cc_type \in c.exclude_types
             THEN [entry |-> None, lookups |-> lookups, parsed |-> TRUE]
             ELSE LET category == _map_category(p.cc_type, p.breaking)
                      description ==
                          TRAILING_PR_REGEX_sub(_capitalise_first(p.description))
                      text == IF pr_number # None
                              THEN EntryTextPR(description, pr_number[1], c)
                              ELSE EntryText(description)
                  IN  [entry |-> Some([category |-> category, text |-> text]),
                       lookups |-> lookups, parsed |-> TRUE]

(***************************************************************************)
(* _run_cmd: o is what the subprocess did, [rc, out]: rc is "ok" (exit     *)
(* status 0) or "fail" (another exit status), out is its standard output.  *)
(***************************************************************************)
\* str.strip()
RECURSIVE LStrip(_)
LStrip(s) == IF s # <<>> /\ IsSpace(s[1]) THEN LStrip(Tail(s)) ELSE s

RECURSIVE RStrip(_)
RStrip(s) ==
    IF s # <<>> /\ IsSpace(s[Len(s)]) THEN RStrip(SubSeq(s, 1, Len(s) - 1)) ELSE s

Strip(s) == LStrip(RStrip(s))

_run_cmd(o) == IF o.rc # "ok" THEN <<>> ELSE Strip(o.out)

\* str.splitlines()
RECURSIVE DropEnds(_)
DropEnds(ls) ==
    IF ls = <<>> THEN <<>> ELSE <<RStripNL(Head(ls))>> \o DropEnds(Tail(ls))

SplitLines(text) == DropEnds(SplitLinesKeepEnds(text))

\* "\n".join(lines)
RECURSIVE JoinNL(_)
JoinNL(ls) ==
    IF ls = <<>> THEN <<>>
    ELSE IF Len(ls) = 1 THEN ls[1]
    ELSE ls[1] \o <<NL>> \o JoinNL(Tail(ls))

(***************************************************************************)
(* collect_entries.  log is the outcome of git log, gh maps a pull-request *)
(* number to the outcome of its gh lookup.                                 *)
(***************************************************************************)
\* line.split(" ", 1): the parts, one part when the line holds no " "
SplitOnce(line) ==
    IF \E i \in 1..Len(line) : line[i] = " "
    THEN LET i == Min({k \in 1..Len(line) : line[k] = " "})
         IN  <<SubSeq(line, 1, i - 1), SubSeq(line, i + 1, Len(line))>>
    ELSE <<line>>

\* the loop over log_output.splitlines(): acc = [raised, entries, gh, line]
RECURSIVE CollectLoop(_, _, _, _, _)
CollectLoop(acc, ls, i, c, gh) ==
    IF i > Len(ls) \/ acc.raised THEN acc
    ELSE IF Strip(ls[i]) = <<>> THEN CollectLoop(acc, ls, i + 1, c, gh)
    ELSE LET parts == SplitOnce(ls[i])
         IN  IF Len(parts) # 2
             \* _sha, message = ... : ValueError, not enough values to unpack
             THEN [acc EXCEPT !.raised = TRUE, !.line = ls[i]]
             ELSE LET message == parts[2]
                      pr == PR_NUMBER_REGEX(message)
                      o == IF pr # None THEN gh[pr[1][1]]
                                        ELSE [rc |-> "fail", out |-> <<>>]
                      e == _entry_from_commit(message, c, _run_cmd(o))
                  IN  CHOOSE r \in
                          {CollectLoop(nxt, ls, i + 1, c, gh) :
                              nxt \in {[acc EXCEPT
                                          !.gh = @ + e.lookups,
                                          !.entries = IF e.entry # None
                                                      THEN Append(@, e.entry[1])
                                                      ELSE @]}} : TRUE

\* [raised, entries, gh, line]: whether the ValueError left the function,
\* the entries it returns, the gh lookups it made, the line that raised
collect_entries(log, c, gh) ==
    LET log_output == _run_cmd(log)
        start == [raised |-> FALSE, entries |-> <<>>, gh |-> 0, line |-> <<>>]
    IN  IF log_output = <<>> THEN start
        ELSE CHOOSE r \in {CollectLoop(start, ls, 1, c, gh) :
                              ls \in {SplitLines(log_output)}} : TRUE

(***************************************************************************)
(* build_section                                                           *)
(***************************************************************************)
RECURSIVE TextsOf(_, _)
TextsOf(es, category) ==
    IF es = <<>> THEN <<>>
    ELSE (IF Head(es).category = category THEN <<Head(es).text>> ELSE <<>>)
         \o TextsOf(Tail(es), category)

RECURSIVE SectionLines(_, _)
SectionLines(es, k) ==
    IF k > Len(CATEGORY_ORDER) THEN <<>>
    ELSE LET cat_entries == TextsOf(es, CATEGORY_ORDER[k])
         IN  (IF cat_entries = <<>> THEN <<>>
              ELSE <<<<"###", " ", CATEGORY_ORDER[k]>>, <<>>>> \o cat_entries
                   \o <<<<>>>>)
             \o SectionLines(es, k + 1)

build_section(es) == JoinNL(SectionLines(es, 1))

(***************************************************************************)
(* update_changelog on the file d = [exists, text]                         *)
(***************************************************************************)
CHANGELOG_HEADER ==
    <<"markdownlint", NL, NL,
      "#", " ", "Changelog", NL, NL,
      "notable", NL, NL,
      "format", NL, "semver", NL, NL,
      "##", " ", "[", "Unreleased", "]", NL>>

\* _ensure_changelog_exists without the is_file test
_ensure_changelog_exists_always(d) ==
    [doc |-> [exists |-> TRUE, text |-> CHANGELOG_HEADER \o <<NL>>], wrote |-> TRUE]

\* the file after the call, and whether the call wrote it
_ensure_changelog_exists(d) ==
    IF d.exists THEN [doc |-> d, wrote |-> FALSE]
    ELSE [doc |-> [exists |-> TRUE, text |-> CHANGELOG_HEADER \o <<NL>>],
          wrote |-> TRUE]

\* f"## [{cfg.version}] - {cfg.today}\n\n{section_body}"
NewSection(c, section_body) ==
    <<"##", " ", "[">> \o c.version \o <<"]", " ", "-", " ">> \o c.today
        \o <<NL, NL>> \o section_body

\* [doc, reads, writes, created]: the file after the call, the calls of
\* read_text and of write_text, and whether the skeleton was written
update_changelog(d, c, section_body, tag) ==
    LET ensured == _ensure_changelog_exists(d)
        new_section == NewSection(c, section_body)
        original == SplitLinesKeepEnds(ensured.doc.text)
        result == _update_comparison_links(
                      _insert_version_section(original, new_section), c, tag)
    IN  [doc |-> [exists |-> TRUE, text |-> Flatten(result)],
         \* path.read_text
         reads |-> 1,
         \* path.write_text, here and in _ensure_changelog_exists
         writes |-> (IF ensured.wrote THEN 1 ELSE 0) + 1,
         created |-> ensured.wrote]

(***************************************************************************)
(* find_last_tag.  A tag is a sequence of characters.                      *)
(***************************************************************************)
Digits == {"0", "1", "2", "3", "4", "5", "6", "7", "8", "9"}

DigitVal(ch) ==
    CASE ch = "0" -> 0 [] ch = "1" -> 1 [] ch = "2" -> 2 [] ch = "3" -> 3
      [] ch = "4" -> 4 [] ch = "5" -> 5 [] ch = "6" -> 6 [] ch = "7" -> 7
      [] ch = "8" -> 8 [] ch = "9" -> 9

\* int(p) of a string of digits
RECURSIVE IntOf(_)
IntOf(p) ==
    IF p = <<>> THEN 0
    ELSE 10 * IntOf(SubSeq(p, 1, Len(p) - 1)) + DigitVal(p[Len(p)])

\* str.split(".")
RECURSIVE SplitDots(_, _, _)
SplitDots(s, i, cur) ==
    IF i > Len(s) THEN <<cur>>
    ELSE IF s[i] = "." THEN <<cur>> \o SplitDots(s, i + 1, <<>>)
    ELSE SplitDots(s, i + 1, Append(cur, s[i]))

\* str.lstrip("v")
RECURSIVE LStripV(_)
LStripV(s) == IF s # <<>> /\ s[1] = "v" THEN LStripV(Tail(s)) ELSE s

IsPrefixOf(p, s) == Len(p) <= Len(s) /\ SubSeq(s, 1, Len(p)) = p

\* prefix_re.search: ^<tag_prefix escaped>, or ^v?\d without a prefix
PrefixRe(tag_prefix, tag) ==
    IF tag_prefix # <<>> THEN IsPrefixOf(tag_prefix, tag)
    ELSE LET t == IF tag # <<>> /\ tag[1] = "v" THEN Tail(tag) ELSE tag
         IN  t # <<>> /\ t[1] \in Digits

\* _SEMVER_TAG_REGEX.match: ^v?(\d+\.\d+\.\d+)$
SEMVER_TAG_REGEX(tag) ==
    LET t == IF tag # <<>> /\ tag[1] = "v" THEN Tail(tag) ELSE tag
        parts == SplitDots(t, 1, <<>>)
    IN  /\ Len(parts) = 3
        /\ \A k \in 1..3 :
              /\ parts[k] # <<>>
              /\ \A i \in 1..Len(parts[k]) : parts[k][i] \in Digits

\* _PRE_RELEASE_REGEX.search: (alpha|beta|rc)
HasSubstring(s, w) ==
    \E i \in 1..(Len(s) - Len(w) + 1) : SubSeq(s, i, i + Len(w) - 1) = w

PRE_RELEASE_REGEX(tag) ==
    \/ HasSubstring(tag, <<"a", "l", "p", "h", "a">>)
    \/ HasSubstring(tag, <<"b", "e", "t", "a">>)
    \/ HasSubstring(tag, <<"r", "c">>)

\* PartsOf without int(): the parts compare as strings, "9" above "10"
PartsOf_str(tag) ==
    LET ps == SplitDots(LStripV(tag), 1, <<>>)
        rank(p) == IF Len(p) = 1 THEN 100 * DigitVal(p[1])
                   ELSE IF Len(p) = 2 THEN 100 * DigitVal(p[1]) + 10 * DigitVal(p[2]) + 1
                   ELSE IntOf(p)
    IN  [k \in 1..Len(ps) |-> rank(ps[k])]

\* tuple(int(p) for p in stripped.split("."))
PartsOf(tag) ==
    LET ps == SplitDots(LStripV(tag), 1, <<>>)
    IN  [k \in 1..Len(ps) |-> IntOf(ps[k])]

\* a < b on tuples of int
RECURSIVE TupleLess(_, _)
TupleLess(a, b) ==
    IF a = <<>> THEN b # <<>>
    ELSE IF b = <<>> THEN FALSE
    ELSE IF Head(a) # Head(b) THEN Head(a) < Head(b)
    ELSE TupleLess(Tail(a), Tail(b))

\* the key versions.sort(key=lambda v: v[0], reverse=True) compares
KeyLess(a, b) == TupleLess(a, b)

\* list.sort(reverse=True) is stable: x goes after the elements whose key is
\* greater than or equal to its own
RECURSIVE InsertDesc(_, _)
InsertDesc(sorted, x) ==
    IF sorted = <<>> THEN <<x>>
    ELSE IF KeyLess(Head(sorted)[1], x[1]) THEN <<x>> \o sorted
    ELSE <<Head(sorted)>> \o InsertDesc(Tail(sorted), x)

RECURSIVE SortDesc(_, _)
SortDesc(vs, sorted) ==
    IF vs = <<>> THEN sorted ELSE SortDesc(Tail(vs), InsertDesc(sorted, Head(vs)))

\* the loop that fills versions
RECURSIVE VersionsOf(_, _)
VersionsOf(raw_tags, tag_prefix) ==
    IF raw_tags = <<>> THEN <<>>
    ELSE LET tag == Head(raw_tags)
             rest == VersionsOf(Tail(raw_tags), tag_prefix)
         IN  IF ~PrefixRe(tag_prefix, tag) THEN rest
             ELSE IF ~SEMVER_TAG_REGEX(tag) THEN rest
             ELSE IF PRE_RELEASE_REGEX(tag) THEN rest
             ELSE <<<<PartsOf(tag), tag>>>> \o rest

\* raw_tags is _run_cmd(["git", "tag"]).splitlines(); the tag, or None
find_last_tag(raw_tags, tag_prefix) ==
    IF raw_tags = <<>> THEN None
    ELSE LET versions == VersionsOf(raw_tags, tag_prefix)
         IN  IF versions = <<>> THEN None
             ELSE Some(SortDesc(versions, <<>>)[1][2])

(***************************************************************************)
(* The variables a specification does not use keep these values.           *)
(***************************************************************************)
NoCfg == [version |-> None]
NoDoc == [exists |-> FALSE, text |-> <<>>]
NoIo == [reads |-> 0, writes |-> 0, git |-> 0, gh |-> 0, exit |-> 0,
         created |-> FALSE, merged |-> FALSE, error |-> <<>>]
NoHist == [n |-> 0]

FunctionIdle ==
    /\ pc = "idle" /\ cfg = NoCfg /\ last_tag = None /\ entries = <<>>
    /\ doc = NoDoc /\ io = NoIo /\ hist = NoHist

PipelineUnchanged == UNCHANGED <<pc, cfg, last_tag, entries, doc, io, hist>>

(***************************************************************************)
(* Specification SpecInsert: _insert_version_section on every list of at   *)
(* most MaxLines lines.                                                    *)
(***************************************************************************)
DocLines ==
    {<<"##", " ", "[", "Unreleased", "]", NL>>,
     <<"##", " ", "\t", "[", "UNRELEASED", "]", " ", "x2", NL>>,
     <<"##", " ", "[", "v0", "]", " ", "-", " ", "d0", NL>>,
     <<"##", " ", "[", "v0", "]">>,
     <<"##", "[", "v0", "]", NL>>,
     <<"##", " ", "[", "]", NL>>,
     <<"###", " ", "Added", NL>>,
     <<"-", " ", "txt", NL>>,
     <<NL>>}

Sections ==
    {<<"##", " ", "[", "v1", "]", " ", "-", " ", "d1", NL, NL>>,
     <<"##", " ", "[", "v1", "]", " ", "-", " ", "d1", NL, NL,
       "###", " ", "Added", NL, NL, "-", " ", "Add", NL>>}

InitInsert ==
    /\ call \in {[fn |-> "insert", lines |-> ls, new_section |-> sec] :
                    ls \in SeqsUpTo(DocLines, MaxLines), sec \in Sections}
    /\ ret = Pending
    /\ FunctionIdle

ApplyInsert ==
    /\ call.fn = "insert" /\ ~ret.done
    /\ ret' = Returned(_insert_version_section(call.lines, call.new_section))
    /\ UNCHANGED call
    /\ PipelineUnchanged

NextInsert == ApplyInsert

SpecInsert == InitInsert /\ [][NextInsert]_vars

\* the indexes of the lines of ls that are an [Unreleased] heading
UnreleasedAt(ls) ==
    {i \in 1..Len(ls) : UNRELEASED_HEADING_REGEX(RStripNL(ls[i]))}

\* the indexes after k of the lines of ls that are a "## [...]" heading
HeadingsAfter(ls, k) ==
    {j \in (k + 1)..Len(ls) : VERSION_HEADING_REGEX(RStripNL(ls[j]))}

\* C1: when the input holds an [Unreleased] heading, the result is the input
\* with exactly one block inserted: a blank line, the new section and a blank
\* line directly before the first "## [...]" heading after the first
\* [Unreleased] heading, or a blank line and the new section after the last
\* line when no heading follows; every input line is kept, unchanged, in order.
C1_InsertOnce ==
    (call.fn = "insert" /\ ret.done /\ UnreleasedAt(call.lines) # {}) =>
        LET ls == call.lines
            block == call.new_section \o <<NL>>
            k == Min(UnreleasedAt(ls))
            H == HeadingsAfter(ls, k)
        IN  IF H # {}
            THEN ret.val = SubSeq(ls, 1, Min(H) - 1) \o <<<<NL>>, block, <<NL>>>>
                               \o SubSeq(ls, Min(H), Len(ls))
            ELSE ret.val = ls \o <<<<NL>>, block>>

\* a heading, the [Unreleased] heading and two more headings: the section is
\* inserted before the first heading that follows [Unreleased]
C1_Witness ==
    /\ call.fn = "insert" /\ ret.done
    /\ Len(call.lines) = MaxLines
    /\ UnreleasedAt(call.lines) = {MaxLines - 2}
    /\ HeadingsAfter(call.lines, MaxLines - 2) = {MaxLines - 1, MaxLines}
    /\ Len(ret.val) = MaxLines + 3

(***************************************************************************)
(* Specification SpecLinks: _update_comparison_links on every list of at   *)
(* most MaxLines lines.                                                    *)
(***************************************************************************)
LinkLines ==
    {<<"[", "unreleased", "]", ":", " ", "repo", "/compare/", "v0", "...", "HEAD", NL>>,
     <<"[", "Unreleased", "]", ":", " ", "x2">>,
     <<" ", "[", "unreleased", "]", ":", " ", "x2", NL>>,
     <<"[", "unreleased", "]", " ", ":", NL>>,
     <<"[", "v0", "]", ":", " ", "repo", "/releases/tag/", "v0", NL>>,
     <<"##", " ", "[", "Unreleased", "]", NL>>,
     <<NL>>}

LinkTags == {None, Some(<<>>), Some(<<"v", "0", ".", "9", ".", "0">>)}

InitLinks ==
    /\ call \in {[fn |-> "links", lines |-> ls, last_tag |-> t,
                  cfg |-> [version |-> <<v>>, repo_url |-> <<"repo">>]] :
                    ls \in SeqsUpTo(LinkLines, MaxLines), t \in LinkTags,
                    v \in {"v1", "v2"}}
    /\ ret = Pending
    /\ FunctionIdle

ApplyLinks ==
    /\ call.fn = "links" /\ ~ret.done
    /\ ret' = Returned(_update_comparison_links(call.lines, call.cfg, call.last_tag))
    /\ UNCHANGED call
    /\ PipelineUnchanged

NextLinks == ApplyLinks

SpecLinks == InitLinks /\ [][NextLinks]_vars

\* the indexes of the lines of ls that begin with [unreleased]: in any case
UnreleasedLinkAt(ls) == {i \in 1..Len(ls) : UNRELEASED_LINK_REGEX(ls[i])}

\* C4: only the first line beginning with [unreleased]: is replaced, by the
\* two lines "[unreleased]: <repo>/compare/<version>...HEAD" and
\* "[<version>]: <repo>/compare/<prior tag>...<version>" (with a prior tag) or
\* "[<version>]: <repo>/releases/tag/<version>" (without); every other line is
\* copied unchanged and in order; without such a line the output is the input.
C4_ReplaceFirstLink ==
    (call.fn = "links" /\ ret.done) =>
        LET ls == call.lines
            v == call.cfg.version
            repo == call.cfg.repo_url
            prior == call.last_tag # None /\ call.last_tag[1] # <<>>
            first == <<"[", "unreleased", "]", ":", " ">> \o repo
                         \o <<"/compare/">> \o v \o <<"...", "HEAD", NL>>
            second == IF prior
                      THEN <<"[">> \o v \o <<"]", ":", " ">> \o repo
                               \o <<"/compare/">> \o call.last_tag[1]
                               \o <<"...">> \o v \o <<NL>>
                      ELSE <<"[">> \o v \o <<"]", ":", " ">> \o repo
                               \o <<"/releases/tag/">> \o v \o <<NL>>
            M == UnreleasedLinkAt(ls)
        IN  IF M = {} THEN ret.val = ls
            ELSE ret.val = SubSeq(ls, 1, Min(M) - 1) \o <<first, second>>
                               \o SubSeq(ls, Min(M) + 1, Len(ls))

\* two [unreleased]: lines and a prior tag: the first is replaced by two
\* lines, the second is kept
C4_Witness ==
    /\ call.fn = "links" /\ ret.done
    /\ Cardinality(UnreleasedLinkAt(call.lines)) >= 2
    /\ call.last_tag # None /\ call.last_tag[1] # <<>>
    /\ Len(ret.val) = Len(call.lines) + 1
    /\ ret.val[Len(ret.val)] = call.lines[Len(call.lines)]
    /\ UNRELEASED_LINK_REGEX(ret.val[Len(ret.val)])

(***************************************************************************)
(* Specification SpecClassify: _parse_commit and _map_category on titles   *)
(* built from a type, a scope, a "!" and a description of at most MaxWords *)
(* words, and on titles without a well-formed prefix.                      *)
(***************************************************************************)
TitleTypes == {"feat", "fix", "security", "deprecate", "revert", "chore", "FEAT",
               "BREAKING"}
TitleScopes == {<<>>, <<"(", "api", ")">>, <<"(", "BREAKING", ")">>}
DescWords == {"add", "BREAKING", "breaking", "non_breaking"}

\* the words of ws with one space between them
RECURSIVE Spaced(_)
Spaced(ws) ==
    IF ws = <<>> THEN <<>>
    ELSE IF Len(ws) = 1 THEN ws
    ELSE <<Head(ws), " ">> \o Spaced(Tail(ws))

Descs == {Spaced(ws) : ws \in SeqsUpTo(DescWords, MaxWords)}

CCTitles ==
    {[kind |-> "cc", type |-> t, scope |-> sc, bang |-> b, desc |-> d,
      title |-> <<t>> \o sc \o (IF b THEN <<"!">> ELSE <<>>) \o <<":", " ">> \o d] :
        t \in TitleTypes, sc \in TitleScopes, b \in BOOLEAN, d \in Descs}

\* no prefix, a type without ":", a scope that is not closed, a type of digits
PlainTitles ==
    {[kind |-> "plain", type |-> "", scope |-> <<>>, bang |-> FALSE, desc |-> d,
      title |-> pre \o d] :
        d \in Descs,
        pre \in {<<>>, <<"feat", " ">>, <<"feat", "(", "api", ":", " ">>,
                 <<"42", ":", " ">>, <<"fix", " ", "!", ":", " ">>}}

InitClassify ==
    /\ call \in {[fn |-> "classify", parts |-> t] : t \in CCTitles \cup PlainTitles}
    /\ ret = Pending
    /\ FunctionIdle

ApplyClassify ==
    /\ call.fn = "classify" /\ ~ret.done
    /\ LET p == _parse_commit(call.parts.title)
       IN  ret' = Returned([cc_type |-> p.cc_type, breaking |-> p.breaking,
                            description |-> p.description,
                            category |-> _map_category(p.cc_type, p.breaking)])
    /\ UNCHANGED call
    /\ PipelineUnchanged

NextClassify == ApplyClassify

SpecClassify == InitClassify /\ [][NextClassify]_vars

\* the table of the claim
C8_Table(t) ==
    CASE t = "feat" -> "Added" [] t = "fix" -> "Fixed" [] t = "security" -> "Security"
      [] t = "deprecate" -> "Deprecated" [] t = "revert" -> "Removed"

C8_Recognized == {"feat", "fix", "security", "deprecate", "revert"}

\* the title's prefix carries "!"
C8_Bang == call.parts.kind = "cc" /\ call.parts.bang

\* the word BREAKING, as written, occurs in s
C8_HasLiteral(s) == \E i \in 1..Len(s) : s[i] = "BREAKING"

\* the word BREAKING, in any letter case, occurs in s
C8_HasWord(s) == \E i \in 1..Len(s) : Lower(s[i]) = "breaking"

\* C8 as claimed: a title with the "!" marker or containing the literal word
\* BREAKING is Breaking Changes; a title of a recognized type without such a
\* marker has the category of the table; any other title is Changed.
C8_AsClaimed ==
    (call.fn = "classify" /\ ret.done) =>
        LET t == Lower(call.parts.type)
            marker == C8_Bang \/ C8_HasLiteral(call.parts.title)
        IN  /\ marker => ret.val.category = "Breaking Changes"
            /\ (~marker /\ call.parts.kind = "cc" /\ t \in C8_Recognized)
                   => ret.val.category = C8_Table(t)
            /\ (~marker /\ (call.parts.kind # "cc" \/ t \notin C8_Recognized))
                   => ret.val.category = "Changed"

\* C8 (amended): the category is Breaking Changes exactly when the prefix
\* carries "!" or the description (the title without a matched prefix) holds
\* the word BREAKING in any letter case; otherwise it is the table's category
\* for a recognized type (compared in lower case) and Changed for any other
\* title.  Every title gets one of the seven categories.
C8_Classify ==
    (call.fn = "classify" /\ ret.done) =>
        LET t == Lower(call.parts.type)
            description == IF call.parts.kind = "cc" THEN call.parts.desc
                           ELSE call.parts.title
            marker == C8_Bang \/ C8_HasWord(description)
        IN  /\ ret.val.category =
                   IF marker THEN "Breaking Changes"
                   ELSE IF call.parts.kind = "cc" /\ t \in C8_Recognized
                   THEN C8_Table(t)
                   ELSE "Changed"
            /\ \E k \in 1..Len(CATEGORY_ORDER) : ret.val.category = CATEGORY_ORDER[k]

\* "feat(BREAKING): add" is Added: the word is in the scope, not the description
C8_Witness ==
    /\ call.fn = "classify" /\ ret.done
    /\ call.parts.title = <<"feat", "(", "BREAKING", ")", ":", " ", "add">>
    /\ ret.val.category = "Added"

(***************************************************************************)
(* Specification SpecEntry: _entry_from_commit on commit messages, with    *)
(* and without a trailing (#42), for each outcome of the title lookup.     *)
(***************************************************************************)
PRSuffix == <<" ", "(", "#", "42", ")">>

EntryTitles ==
    {pre \o d :
        pre \in {<<>>, <<"feat", ":", " ">>, <<"feat", "!", ":", " ">>,
                 <<"fix", ":", " ">>, <<"chore", ":", " ">>,
                 <<"chore", "!", ":", " ">>, <<"Merged", " ">>},
        d \in {<<"add">>, <<"BREAKING", " ", "add">>, <<"merge", " ", "x2">>}}

NoiseTitles ==
    {<<"Merge", " ", "pull", " ", "request", " ", "#", "44">>,
     <<"Merge", " ", "branch", " ", "x2">>,
     <<"Merge", " ", "remote", " ", "x2">>,
     <<"Prepare", " ", "release", " ", "v1">>,
     <<"Create", " ", "7">>,
     <<"feat", "!", ":", " ", "merge", " ", "x2", " ", "into", " ", "main">>,
     <<"chore", ":", " ", "Merge", " ", "master", " ", "to", " ", "x2">>}

EntryMessages ==
    {[message |-> t \o sfx, noise |-> FALSE, pr |-> sfx # <<>>] :
        t \in EntryTitles, sfx \in {<<>>, PRSuffix}}
    \cup
    {[message |-> t \o sfx, noise |-> TRUE, pr |-> sfx # <<>>] :
        t \in NoiseTitles, sfx \in {<<>>, PRSuffix}}

\* what the title lookup returns: "" after a failure, or the title
GhTitles ==
    {<<>>,
     <<"fix", "!", ":", " ", "drop">>,
     <<"chore", ":", " ", "bump">>,
     <<"Merge", " ", "pull", " ", "request", " ", "#", "44">>}

ExcludeSets == {{}, {"chore"}, {"feat", "fix"}}

InitEntry ==
    /\ call \in {[fn |-> "entry", m |-> m, gh |-> g,
                  cfg |-> [exclude_types |-> x, repo_url |-> <<"repo">>]] :
                    m \in EntryMessages, g \in GhTitles, x \in ExcludeSets}
    /\ ret = Pending
    /\ FunctionIdle

ApplyEntry ==
    /\ call.fn = "entry" /\ ~ret.done
    /\ ret' = Returned(_entry_from_commit(call.m.message, call.cfg, call.gh))
    /\ UNCHANGED call
    /\ PipelineUnchanged

NextEntry == ApplyEntry

SpecEntry == InitEntry /\ [][NextEntry]_vars

\* the title that is classified: the looked-up title when the message ends
\* with a pull-request number and the lookup returned one, else the message
C9_Title == IF call.m.pr /\ call.gh # <<>> THEN call.gh ELSE call.m.message

\* C9: a noise message yields no entry, no title lookup and no
\* classification; any other commit is dropped exactly when it is classified
\* non-breaking and its type is in the exclude set, and a breaking commit
\* yields a Breaking Changes entry even when its type is excluded.
C9_Filter ==
    (call.fn = "entry" /\ ret.done) =>
        IF call.m.noise
        THEN ret.val = [entry |-> None, lookups |-> 0, parsed |-> FALSE]
        ELSE LET p == _parse_commit(C9_Title)
             IN  /\ ret.val.parsed
                 /\ (ret.val.entry = None) <=>
                        (~p.breaking /\ p.cc_type \in call.cfg.exclude_types)
                 /\ p.breaking =>
                        /\ ret.val.entry # None
                        /\ ret.val.entry[1].category = "Breaking Changes"

\* a breaking commit of an excluded type is kept as Breaking Changes
C9_Witness ==
    /\ call.fn = "entry" /\ ret.done
    /\ ~call.m.noise
    /\ _parse_commit(C9_Title).breaking
    /\ _parse_commit(C9_Title).cc_type \in call.cfg.exclude_types
    /\ ret.val.entry # None
    /\ ret.val.entry[1].category = "Breaking Changes"

(***************************************************************************)
(* Specification SpecTags: find_last_tag on every list of at most MaxTags  *)
(* labels.  Each label comes with what it is: its triple, whether it is    *)
(* exactly MAJOR.MINOR.PATCH with an optional v, whether it holds a        *)
(* pre-release marker.                                                     *)
(***************************************************************************)
TagCatalogue ==
    {[tag |-> <<"v", "1", ".", "2", ".", "3">>,
      triple |-> <<1, 2, 3>>, exact |-> TRUE, pre |-> FALSE],
     [tag |-> <<"v", "1", ".", "1", "0", ".", "0">>,
      triple |-> <<1, 10, 0>>, exact |-> TRUE, pre |-> FALSE],
     [tag |-> <<"v", "1", ".", "9", ".", "9">>,
      triple |-> <<1, 9, 9>>, exact |-> TRUE, pre |-> FALSE],
     [tag |-> <<"1", ".", "1", "0", ".", "0">>,
      triple |-> <<1, 10, 0>>, exact |-> TRUE, pre |-> FALSE],
     [tag |-> <<"v", "2", ".", "0", ".", "0", "-", "b", "e", "t", "a">>,
      triple |-> <<2, 0, 0>>, exact |-> FALSE, pre |-> TRUE],
     [tag |-> <<"v", "3", ".", "0", ".", "0", "r", "c", "1">>,
      triple |-> <<3, 0, 0>>, exact |-> FALSE, pre |-> TRUE],
     [tag |-> <<"v", "2", ".", "1">>,
      triple |-> <<2, 1, 0>>, exact |-> FALSE, pre |-> FALSE],
     [tag |-> <<"r", "c", "-", "9", ".", "0", ".", "0">>,
      triple |-> <<9, 0, 0>>, exact |-> FALSE, pre |-> TRUE]}

TagPrefixes == {<<>>, <<"v">>, <<"v", "1", ".", "1">>, <<"r", "c", "-">>}

InitTags ==
    /\ call \in {[fn |-> "tags", labels |-> ls, tag_prefix |-> pre] :
                    ls \in SeqsUpTo(TagCatalogue, MaxTags), pre \in TagPrefixes}
    /\ ret = Pending
    /\ FunctionIdle

ApplyTags ==
    /\ call.fn = "tags" /\ ~ret.done
    /\ ret' = Returned(find_last_tag([k \in 1..Len(call.labels) |-> call.labels[k].tag],
                                     call.tag_prefix))
    /\ UNCHANGED call
    /\ PipelineUnchanged

NextTags == ApplyTags

SpecTags == InitTags /\ [][NextTags]_vars

\* the label matches the configured prefix, or v?<digit> without a prefix
C10_MatchesPrefix(l) ==
    IF call.tag_prefix # <<>> THEN IsPrefixOf(call.tag_prefix, l.tag)
    ELSE l.tag[1] \in Digits \/ (l.tag[1] = "v" /\ l.tag[2] \in Digits)

\* the indexes of the labels that qualify
C10_Qualifying ==
    {i \in 1..Len(call.labels) :
        /\ C10_MatchesPrefix(call.labels[i])
        /\ call.labels[i].exact
        /\ ~call.labels[i].pre}

\* a < b for triples of numbers
C10_Less(a, b) ==
    \/ a[1] < b[1]
    \/ (a[1] = b[1] /\ a[2] < b[2])
    \/ (a[1] = b[1] /\ a[2] = b[2] /\ a[3] < b[3])

\* C10: find_last_tag returns a qualifying label whose triple is the maximum
\* under numeric comparison, and "no prior release" exactly when no label
\* qualifies; a pre-release label is never returned.
C10_MaxTriple ==
    (call.fn = "tags" /\ ret.done) =>
        IF C10_Qualifying = {} THEN ret.val = None
        ELSE /\ ret.val # None
             /\ \E i \in C10_Qualifying :
                   /\ call.labels[i].tag = ret.val[1]
                   /\ \A j \in C10_Qualifying :
                         ~C10_Less(call.labels[i].triple, call.labels[j].triple)

\* v1.9.9, v1.10.0 and a pre-release label: v1.10.0 is returned
C10_Witness ==
    /\ call.fn = "tags" /\ ret.done
    /\ call.tag_prefix = <<"v">>
    /\ \E i, j, k \in 1..Len(call.labels) :
          /\ call.labels[i].triple = <<1, 9, 9>>
          /\ call.labels[j].triple = <<1, 10, 0>>
          /\ call.labels[k].pre
    /\ ret.val = Some(<<"v", "1", ".", "1", "0", ".", "0">>)

(***************************************************************************)
(* Documents the pipeline specifications start from.                       *)
(***************************************************************************)
UnreleasedHeadingLine == <<"##", " ", "[", "Unreleased", "]", NL>>

OldSection ==
    <<"##", " ", "[", "v0", "]", " ", "-", " ", "d0", NL, NL,
      "###", " ", "Added", NL, NL, "-", " ", "txt", NL, NL>>

OldLinks ==
    <<"[", "unreleased", "]", ":", " ", "repo", "/compare/", "v0", "...", "HEAD", NL,
      "[", "v0", "]", ":", " ", "repo", "/releases/tag/", "v0", NL>>

File(text) == [exists |-> TRUE, text |-> text]

InitialDocs ==
    {NoDoc,
     \* the skeleton, as an earlier run left it
     File(CHANGELOG_HEADER \o <<NL>>),
     \* a changelog with one release and its links
     File(<<"#", " ", "Changelog", NL, NL>> \o UnreleasedHeadingLine \o <<NL>>
          \o OldSection \o OldLinks),
     \* the same without the link block
     File(UnreleasedHeadingLine \o <<NL>> \o OldSection),
     \* no release yet, with a link block
     File(UnreleasedHeadingLine \o <<NL>> \o OldLinks),
     \* the file ends in the heading, without a line break
     File(<<"#", " ", "Changelog", NL, "##", " ", "[", "Unreleased", "]">>),
     \* no [Unreleased] heading
     File(<<"#", " ", "Changelog", NL, NL>> \o OldSection \o OldLinks),
     \* an empty file
     File(<<>>)}

\* the "## [...]" heading lines of a text, in order, without their line break
RECURSIVE HeadingsIn(_)
HeadingsIn(ls) ==
    IF ls = <<>> THEN <<>>
    ELSE (IF VERSION_HEADING_REGEX(RStripNL(Head(ls))) THEN <<RStripNL(Head(ls))>>
          ELSE <<>>) \o HeadingsIn(Tail(ls))

HeadingsOf(text) == HeadingsIn(SplitLinesKeepEnds(text))

IsSuffixOf(x, s) == Len(x) <= Len(s) /\ SubSeq(s, Len(s) - Len(x) + 1, Len(s)) = x

(***************************************************************************)
(* Specification Spec: one run of main().                                  *)
(***************************************************************************)
\* os.environ.get("INPUT_VERSION"): unset, empty or a label
RunVersions == {None, Some(<<>>), Some(<<"v1">>), Some(<<"v2">>)}

\* INPUT_TAG_PREFIX and INPUT_EXCLUDE_TYPES
RunOptions ==
    {[tag_prefix |-> <<>>, exclude_types |-> {}],
     [tag_prefix |-> <<"v">>, exclude_types |-> {"chore"}]}

\* what git tag prints
RunTagLists ==
    {<<>>,
     <<<<"v", "0", ".", "9", ".", "0">>, <<"v", "0", ".", "1", "0", ".", "0">>,
       <<"v", "1", ".", "0", ".", "0", "-", "r", "c", "1">>>>,
     <<<<"0", ".", "9", ".", "0">>>>}

GitTagOutcomes ==
    {[rc |-> "ok", out |-> JoinNL(ts) \o <<NL>>] : ts \in RunTagLists}
    \cup {[rc |-> "fail", out |-> <<>>]}

\* the subjects of the commits git log lists
RunMessages ==
    {<<"feat", ":", " ", "add", " ", "(", "#", "42", ")">>,
     <<"fix", "!", ":", " ", "drop", " ", "(", "#", "43", ")">>,
     <<"Merge", " ", "pull", " ", "request", " ", "#", "44">>,
     <<"chore", ":", " ", "bump">>,
     <<>>}

\* --pretty=format:%H %s
RECURSIVE LogLines(_)
LogLines(ms) ==
    IF ms = <<>> THEN <<>>
    ELSE <<<<"sha", " ">> \o Head(ms)>> \o LogLines(Tail(ms))

GitLogOutcomes ==
    {[rc |-> "ok", out |-> JoinNL(LogLines(ms))] :
        ms \in SeqsUpTo(RunMessages, MaxCommits)}
    \cup {[rc |-> "fail", out |-> <<"fatal">>]}

\* what gh pr view does for each pull-request number
GhOutcomes ==
    {[n \in {"42", "43"} |-> [rc |-> "fail", out |-> <<>>]],
     [n \in {"42", "43"} |->
         IF n = "42" THEN [rc |-> "ok", out |-> <<"fix", "!", ":", " ", "drop", NL>>]
         ELSE [rc |-> "ok", out |-> <<>>]],
     [n \in {"42", "43"} |->
         IF n = "42" THEN [rc |-> "fail", out |-> <<>>]
         ELSE [rc |-> "ok", out |-> <<"chore", ":", " ", "bump", NL>>]]}

Init ==
    /\ call = NoCall /\ ret = Pending
    /\ pc = "start"
    /\ cfg = NoCfg /\ last_tag = None /\ entries = <<>>
    /\ doc \in InitialDocs
    /\ io = NoIo
    /\ hist = [n |-> 0, before |-> doc, version |-> None]

\* main, to the test of INPUT_VERSION and the construction of Config
main_config ==
    /\ pc = "start"
    /\ \E version \in RunVersions, o \in RunOptions :
          /\ hist' = [hist EXCEPT !.version = version]
          /\ IF ~Truthy(version)
             THEN \* sys.exit(1)
                  /\ cfg' = cfg
                  /\ io' = [io EXCEPT !.exit = 1,
                                      !.error = <<"INPUT_VERSION is required">>]
                  /\ pc' = "exit"
             ELSE /\ cfg' = [version |-> version[1], repo_url |-> <<"repo">>,
                             tag_prefix |-> o.tag_prefix,
                             exclude_types |-> o.exclude_types,
                             today |-> <<"d1">>]
                  /\ io' = io
                  /\ pc' = "tag"
    /\ UNCHANGED <<call, ret, last_tag, entries, doc>>

\* main: last_tag = find_last_tag(cfg.tag_prefix)
main_find_last_tag ==
    /\ pc = "tag"
    /\ \E o \in GitTagOutcomes :
          /\ last_tag' = find_last_tag(SplitLines(_run_cmd(o)), cfg.tag_prefix)
          /\ io' = [io EXCEPT !.git = @ + 1]
          /\ pc' = "log"
    /\ UNCHANGED <<call, ret, cfg, entries, doc, hist>>

\* main: entries = collect_entries(last_tag, cfg), and the return without entries
main_collect_entries ==
    /\ pc = "log"
    /\ \E log \in GitLogOutcomes, gh \in GhOutcomes :
          \E r \in {collect_entries(log, cfg, gh)} :
              /\ io' = [io EXCEPT !.git = @ + 1, !.gh = @ + r.gh,
                                  !.exit = IF r.raised THEN 1 ELSE @,
                                  !.error = IF r.raised
                                            THEN <<"ValueError in line", r.line>>
                                            ELSE @]
              /\ entries' = IF r.raised THEN entries ELSE r.entries
              /\ pc' = IF r.raised THEN "exit"
                       ELSE IF r.entries = <<>> THEN "done"
                       ELSE "merge"
    /\ UNCHANGED <<call, ret, cfg, last_tag, doc, hist>>

\* main: section_body = build_section(entries); update_changelog(...)
main_update_changelog ==
    /\ pc = "merge"
    /\ \E u \in {update_changelog(doc, cfg, build_section(entries), last_tag)} :
           /\ doc' = u.doc
           /\ io' = [io EXCEPT !.reads = @ + u.reads, !.writes = @ + u.writes,
                               !.created = u.created, !.merged = TRUE]
    /\ pc' = "done"
    /\ UNCHANGED <<call, ret, cfg, last_tag, entries, hist>>

Next ==
    \/ main_config
    \/ main_find_last_tag
    \/ main_collect_entries
    \/ main_update_changelog

Spec == Init /\ [][Next]_vars

\* the lines of the document as the run found it
BeforeLines == SplitLinesKeepEnds(hist.before.text)

\* C2 as claimed: merging into a document without an [Unreleased] heading
\* does not raise and appends the new version section after the last line.
C2_AsClaimed ==
    (/\ pc = "done" /\ io.merged
     /\ hist.before.exists /\ UnreleasedAt(BeforeLines) = {}) =>
        /\ io.exit = 0
        /\ IsSuffixOf(NewSection(cfg, build_section(entries)) \o <<NL>>, doc.text)

\* the run inserted a version section: the document was absent (the skeleton
\* has the heading) or held an [Unreleased] heading
C5_Inserted ==
    /\ pc = "done" /\ io.merged
    /\ (~hist.before.exists \/ UnreleasedAt(BeforeLines) # {})

\* C5 as claimed: after a run that inserts a version section the document
\* holds the line "[unreleased]: <repo>/compare/<version>...HEAD" for the
\* inserted version, below every version heading.
C5_AsClaimed ==
    C5_Inserted =>
        LET ls == SplitLinesKeepEnds(doc.text)
            link == <<"[", "unreleased", "]", ":", " ">> \o cfg.repo_url
                        \o <<"/compare/">> \o cfg.version \o <<"...", "HEAD", NL>>
        IN  \E i \in 1..Len(ls) :
               /\ ls[i] = link
               /\ \A j \in 1..Len(ls) :
                     VERSION_HEADING_REGEX(RStripNL(ls[j])) => j < i

\* C6 as claimed: every run that ends reads the document once and writes it
\* exactly once.
C6_AsClaimed ==
    pc = "done" => (io.reads = 1 /\ io.writes = 1)

\* C6 (amended): a run that produced an entry reads the document exactly once
\* and writes it once when it existed, twice (the skeleton, then the merged
\* document) when it was absent; a run without an entry, and a run that
\* aborts, neither reads nor writes it.
C6_ReadWrite ==
    /\ io.reads <= 1
    /\ pc = "done" =>
          IF entries = <<>> THEN io.reads = 0 /\ io.writes = 0 /\ doc = hist.before
          ELSE /\ io.reads = 1
               /\ io.writes = IF hist.before.exists THEN 1 ELSE 2
    /\ pc = "exit" => (io.reads = 0 /\ io.writes = 0 /\ doc = hist.before)

\* a run on an absent document: the skeleton and the merged document are written
C6_Witness ==
    /\ pc = "done" /\ io.merged /\ entries # <<>>
    /\ ~hist.before.exists /\ doc.exists
    /\ io.reads = 1 /\ io.writes = 2

\* C7 as claimed: the run ends with a non-zero exit exactly when the version
\* label is missing or empty, and then no git call, no title lookup and no
\* document access was made.
C7_AsClaimed ==
    pc \in {"done", "exit"} =>
        /\ (io.exit # 0) <=> (hist.version = None \/ hist.version = Some(<<>>))
        /\ io.exit # 0 => (io.git = 0 /\ io.gh = 0 /\ io.reads = 0 /\ io.writes = 0)

(***************************************************************************)
(* Specification SpecMerges: update_changelog called again and again on    *)
(* one document.                                                           *)
(***************************************************************************)
MergeDocs ==
    InitialDocs
    \cup {\* two [Unreleased] headings
          File(UnreleasedHeadingLine \o <<NL>> \o UnreleasedHeadingLine \o OldSection),
          \* a release above the [Unreleased] heading
          File(OldSection \o UnreleasedHeadingLine \o <<NL>> \o OldLinks)}

MergeVersions == {"v1", "v2"}

MergeBodies ==
    {<<>>, build_section(<<[category |-> "Added", text |-> <<"-", " ", "Add">>]>>)}

MergeTags == {None, Some(<<"v", "0", ".", "9", ".", "0">>)}

InitMerges ==
    /\ call = NoCall /\ ret = Pending
    /\ pc = "idle"
    /\ cfg = NoCfg /\ last_tag = None /\ entries = <<>>
    /\ doc \in MergeDocs
    /\ io = NoIo
    /\ hist = [n |-> 0, before |-> doc, merged |-> <<>>]

merge_update_changelog ==
    /\ hist.n < MaxMerges
    /\ \E v \in MergeVersions, body \in MergeBodies, t \in MergeTags :
          \E u \in {update_changelog(doc,
                                     [version |-> <<v>>, repo_url |-> <<"repo">>,
                                      today |-> <<"d1">>],
                                     body, t)} :
              /\ doc' = u.doc
              /\ hist' = [hist EXCEPT !.n = @ + 1, !.merged = <<v>> \o @]
    /\ UNCHANGED <<call, ret, pc, cfg, last_tag, entries, io>>

NextMerges == merge_update_changelog

SpecMerges == InitMerges /\ [][NextMerges]_vars

\* the headings of the document the merges started from (the skeleton's when
\* it was absent)
C3_StartHeadings ==
    HeadingsOf(IF hist.before.exists THEN hist.before.text
               ELSE CHANGELOG_HEADER \o <<NL>>)

\* the first heading is the only [Unreleased] heading
C3_OnlyFirstUnreleased(h) ==
    /\ h # <<>>
    /\ \A k \in 1..Len(h) : UNRELEASED_HEADING_REGEX(h[k]) <=> k = 1

\* C3: starting from a document whose first "## [...]" heading is its only
\* [Unreleased] heading, after any sequence of merges the document has
\* exactly one [Unreleased] heading, it is the first heading, each merge has
\* added exactly one version heading and removed none, and the added headings
\* follow [Unreleased] newest first, above the headings that were there.
C3_Headings ==
    (hist.n >= 1 /\ C3_OnlyFirstUnreleased(C3_StartHeadings)) =>
        LET h0 == C3_StartHeadings
            added == [k \in 1..Len(hist.merged) |->
                         <<"##", " ", "[", hist.merged[k], "]", " ", "-", " ", "d1">>]
            h == HeadingsOf(doc.text)
        IN  /\ h = <<h0[1]>> \o added \o Tail(h0)
            /\ C3_OnlyFirstUnreleased(h)

\* the same version label merged twice in a row above an older release
C3_Witness ==
    /\ hist.n >= 2
    /\ hist.merged[1] = hist.merged[2]
    /\ C3_OnlyFirstUnreleased(C3_StartHeadings)
    /\ Len(C3_StartHeadings) >= 2
    /\ Len(HeadingsOf(doc.text)) = Len(C3_StartHeadings) + hist.n

==========================================================================
